---- MODULE Spec2Model ----
(***************************************************************************)
(* Model of the video stitching service (src/server.js, lines 1-432): the  *)
(* POST /process-videos handler, the GET /download/:jobId handler, and the *)
(* pure helpers they use.  A handler is an async function; every `await`   *)
(* is a point where it is suspended, so pc[j] names the awaited call and   *)
(* one action models the settlement of that call together with the         *)
(* synchronous code that runs up to the next await.                        *)
(***************************************************************************)
EXTENDS Integers, Sequences, FiniteSets, TLC

VARIABLES
    files,       \* file system: path -> content, for every file that exists
    dirs,        \* directories that exist
    pc,          \* per job: the await the handler is suspended at
    body,        \* per job: req.body
    videos,      \* per job: req.body.videos (sorted in place by Array.sort)
    idx,         \* per job: loop variable i of the download loop
    videoPaths,  \* per job: the local const videoPaths
    thrown,      \* per job: the error that entered the catch block
    resp,        \* per job: the HTTP response sent for POST /process-videos
    log,         \* per job: the stages started so far, in order (history)
    dl,          \* the last GET /download/:jobId and its response status
    probed,      \* results of hasAudioStream handed to the graph builders
    built        \* the filter graphs built from them

vars == <<files, dirs, pc, body, videos, idx, videoPaths, thrown, resp, log, dl,
          probed, built>>

----------------------------------------------------------------------------
(* Bounds of the model *)

MaxVideos == 2    \* longest videos array of a request
MaxScene == 2     \* scene numbers are drawn from 1..MaxScene

----------------------------------------------------------------------------
(* Constants of the program *)

TEMP_DIR == "/tmp"

PathJoin(a, b) == a \o "/" \o b

OUTPUT_DIR == PathJoin(TEMP_DIR, "output")

OUTRO_VIDEO_PATH == PathJoin(PathJoin("/usr/src/app", "outro"), "portrait.mp4")

\* Values uuidv4() returns: fresh identifiers, one per request.
JobIds == {"6f1c", "a2e9"}

\* The requests of the sequential specification are handled by one handler run.
SoloJobs == {"6f1c"}

----------------------------------------------------------------------------
(* Pure helpers *)

Digit(c) ==
    CASE c = "0" -> 0 [] c = "1" -> 1 [] c = "2" -> 2 [] c = "3" -> 3
      [] c = "4" -> 4 [] c = "5" -> 5 [] c = "6" -> 6 [] c = "7" -> 7
      [] c = "8" -> 8 [] c = "9" -> 9 [] OTHER -> -1

NaN == [nan |-> TRUE, val |-> 0]

RECURSIVE ParseDigits(_, _, _, _)
ParseDigits(s, i, acc, seen) ==
    IF i > Len(s) \/ Digit(SubSeq(s, i, i)) < 0
    THEN IF seen THEN [nan |-> FALSE, val |-> acc] ELSE NaN
    ELSE ParseDigits(s, i + 1, acc * 10 + Digit(SubSeq(s, i, i)), TRUE)

\* parseInt(x, 10) on the string form of x: the longest prefix of decimal
\* digits, NaN when there is none.
ParseInt(s) == ParseDigits(s, 1, 0, FALSE)

RECURSIVE PadStart(_, _, _)
PadStart(s, n, c) == IF Len(s) >= n THEN s ELSE PadStart(c \o s, n, c)

\* The comparator handed to Array.prototype.sort.  A NaN result is treated
\* as +0 by the sort.
CompareScenes(a, b) ==
    LET sceneA == ParseInt(a.scene_number)
        sceneB == ParseInt(b.scene_number)
    IN  IF sceneA.nan \/ sceneB.nan THEN 0 ELSE sceneA.val - sceneB.val

RECURSIVE InsertSorted(_, _)
InsertSorted(s, x) ==
    IF s = <<>> THEN <<x>>
    ELSE IF CompareScenes(s[Len(s)], x) > 0
         THEN Append(InsertSorted(SubSeq(s, 1, Len(s) - 1), x), s[Len(s)])
         ELSE Append(s, x)

RECURSIVE SortFrom(_, _)
SortFrom(done, rest) ==
    IF rest = <<>> THEN done
    ELSE SortFrom(InsertSorted(done, Head(rest)), Tail(rest))

\* The array left in request order (the sort dropped).
SortVideosUnsorted(vs) == vs

\* videos.sort((a, b) => parseInt(a.scene_number) - parseInt(b.scene_number)):
\* a stable sort (insertion of each element after its equals).
SortVideos(vs) == SortFrom(<<>>, vs)

\* One workspace directory used by every job.
JobDirShared(j) == PathJoin(TEMP_DIR, "job")

JobDir(j) == PathJoin(TEMP_DIR, j)

AudioPath(j) == PathJoin(JobDir(j), "audio.mp3")

TrimmedAudioPath(j) == PathJoin(JobDir(j), "audio_trimmed.mp3")

VideoPath(j, video) ==
    PathJoin(JobDir(j), "video_" \o PadStart(video.scene_number, 3, "0") \o ".mp4")

StitchedVideoPath(j) == PathJoin(JobDir(j), "stitched_video.mp4")

VideoWithAudioPath(j) == PathJoin(JobDir(j), "video_with_audio.mp4")

\* The final file written into the job's workspace.
FinalVideoPathInJobDir(j) == PathJoin(JobDir(j), "final_video_" \o j \o ".mp4")

FinalVideoPath(j) == PathJoin(OUTPUT_DIR, "final_video_" \o j \o ".mp4")

\* sortedVideos.map(v => parseInt(v.scene_number, 10))
SceneOrder(vs) == [i \in 1..Len(vs) |-> ParseInt(vs[i].scene_number)]

\* p lies inside directory d (what fs.rm(d, {recursive: true}) removes)
IsUnder(p, d) ==
    /\ Len(p) > Len(d) + 1
    /\ SubSeq(p, 1, Len(d) + 1) = d \o "/"

\* fs.rm(dir, { recursive: true, force: true }) on the file map
RmRecursive(fs, d) == [p \in {q \in DOMAIN fs : ~IsUnder(q, d)} |-> fs[p]]

WriteFile(fs, p, content) == (p :> content) @@ fs

----------------------------------------------------------------------------
(* Requests *)

SceneValues == {ToString(n) : n \in 1..MaxScene} \cup {"x"}

Urls == {"", "http://a", "http://b"}

Descriptors == [scene_number : SceneValues, final_video_url : Urls]

VideoArrays == UNION {[1..n -> Descriptors] : n \in 0..MaxVideos}

\* req.body.videos is an array, is missing, or is some other JSON value
VideosValues ==
    {[kind |-> "array", items |-> a] : a \in VideoArrays}
        \cup {[kind |-> "undefined", items |-> <<>>],
              [kind |-> "object", items |-> <<>>]}

Bodies == [videos : VideosValues, mv_audio : {"", "http://audio"}]

\* !videos || !Array.isArray(videos) || !mv_audio
InvalidInput(b) == b.videos.kind # "array" \/ b.mv_audio = ""

----------------------------------------------------------------------------
(* Responses *)

NoResponse == [status |-> 0, success |-> "absent", error |-> "", jobId |-> "",
               sceneOrder |-> <<>>]

InvalidInputResponse ==
    [status |-> 400, success |-> "absent",
     error |-> "Invalid input. Expected videos array and mv_audio URL",
     jobId |-> "", sceneOrder |-> <<>>]

OutroMissingResponse ==
    [status |-> 400, success |-> "false", error |-> "Outro video file not found",
     jobId |-> "", sceneOrder |-> <<>>]

\* The catch block answering with a fixed text instead of error.message.
CatchResponseGeneric(j, error) ==
    [status |-> 500, success |-> "false", error |-> "Internal server error",
     jobId |-> j, sceneOrder |-> <<>>]

\* the catch block of the handler
CatchResponse(j, error) ==
    [status |-> 500, success |-> "false", error |-> error.message, jobId |-> j,
     sceneOrder |-> <<>>]

SuccessResponse(j, sortedVideos) ==
    [status |-> 200, success |-> "true", error |-> "", jobId |-> j,
     sceneOrder |-> SceneOrder(sortedVideos)]

NoError == [stage |-> "", message |-> ""]

\* The error a failing stage rejects with.
StageError(stage) == [stage |-> stage, message |-> stage \o " failed"]

----------------------------------------------------------------------------
(* External collaborators: what a stage leaves behind when it succeeds *)

RECURSIVE JoinContents(_, _)
JoinContents(fs, paths) ==
    IF paths = <<>> THEN ""
    ELSE IF Len(paths) = 1 THEN fs[paths[1]]
    ELSE fs[paths[1]] \o "+" \o JoinContents(fs, Tail(paths))

\* axios rejects at once for an unusable URL; otherwise the transfer can
\* finish, be rejected, or never settle (downloadFile sets no timeout and
\* settles only on the writer's finish/error events).
DownloadOutcomes(url) == IF url = "" THEN {"error"} ELSE {"ok", "error", "stall"}

----------------------------------------------------------------------------
(* Filter graphs: stitchVideos (lines 92-136) and addOutroVideo (181-237).  *)
(* A graph is the sequence of filter chains of the -filter_complex string   *)
(* (the pieces joined by ';'), each with the pad labels written in front    *)
(* of it, the filter text, and the pad labels written after it, plus the    *)
(* labels given to -map.  Input indexes are 0-based as in the code.         *)

MaxClips == 3     \* most clips handed to stitchVideos

InV(index) == ToString(index) \o ":v"

InA(index) == ToString(index) \o ":a"

VLabel(index) == "v" \o ToString(index)

ALabel(index) == "a" \o ToString(index)

Normalize ==
    "scale=1080:1920:force_original_aspect_ratio=decrease," \o
    "pad=1080:1920:(ow-iw)/2:(oh-ih)/2,setsar=1,fps=30"

Anullsrc == "anullsrc=r=44100:cl=stereo"

\* `[${index}:v]scale=...,fps=30[v${index}]`
ScaleAndPadFilter(index) ==
    [ins |-> <<InV(index)>>, filter |-> Normalize, outs |-> <<VLabel(index)>>]

\* audioChecks[index] ? `[${index}:a]` : `anullsrc=r=44100:cl=stereo[a${index}]`
AudioFilter(audioChecks, index) ==
    IF audioChecks[index + 1]
    THEN [ins |-> <<InA(index)>>, filter |-> "", outs |-> <<>>]
    ELSE [ins |-> <<>>, filter |-> Anullsrc, outs |-> <<ALabel(index)>>]

RECURSIVE Flatten(_)
Flatten(ss) == IF ss = <<>> THEN <<>> ELSE Head(ss) \o Flatten(Tail(ss))

\* audioChecks.some(hasAudio => hasAudio) with `every` in place of `some`
HasAnyAudioEvery(audioChecks) ==
    \A i \in 1..Len(audioChecks) : audioChecks[i]

\* audioChecks.some(hasAudio => hasAudio)
HasAnyAudio(audioChecks) ==
    \E i \in 1..Len(audioChecks) : audioChecks[i]

\* the filter graph and the -map options stitchVideos hands to the engine
StitchGraph(audioChecks) ==
    LET n == Len(audioChecks)
        scaleAndPadFilters == [i \in 1..n |-> ScaleAndPadFilter(i - 1)]
    IN  IF HasAnyAudio(audioChecks)
        THEN LET audioFilters == [i \in 1..n |-> AudioFilter(audioChecks, i - 1)]
                 concatInputs ==
                     Flatten([i \in 1..n |-> <<VLabel(i - 1), ALabel(i - 1)>>])
             IN  [chains |-> scaleAndPadFilters \o audioFilters \o
                        <<[ins |-> concatInputs,
                           filter |-> "concat=n=" \o ToString(n) \o ":v=1:a=1",
                           outs |-> <<"outv", "outa">>]>>,
                  maps |-> <<"outv", "outa">>]
        ELSE LET concatInputs == [i \in 1..n |-> VLabel(i - 1)]
             IN  [chains |-> scaleAndPadFilters \o
                        <<[ins |-> concatInputs,
                           filter |-> "concat=n=" \o ToString(n) \o ":v=1:a=0",
                           outs |-> <<"outv">>]>>,
                  maps |-> <<"outv">>]

Silent == [ins |-> <<>>, filter |-> Anullsrc, outs |-> <<"silent">>]

OutroConcat(inputs, a) ==
    IF a
    THEN [ins |-> inputs, filter |-> "concat=n=2:v=1:a=1", outs |-> <<"outv", "outa">>]
    ELSE [ins |-> inputs, filter |-> "concat=n=2:v=1:a=0", outs |-> <<"outv">>]

\* addOutroVideo with the one-has-audio case always laid out as "main has audio"
OutroGraphMainFirst(mainHasAudio, outroHasAudio) ==
    IF mainHasAudio /\ outroHasAudio
    THEN [chains |-> <<ScaleAndPadFilter(0), ScaleAndPadFilter(1),
                       OutroConcat(<<"v0", "0:a", "v1", "1:a">>, TRUE)>>,
          maps |-> <<"outv", "outa">>]
    ELSE IF mainHasAudio \/ outroHasAudio
    THEN [chains |-> <<ScaleAndPadFilter(0), ScaleAndPadFilter(1), Silent,
                       OutroConcat(<<"v0", "0:a", "v1", "silent">>, TRUE)>>,
          maps |-> <<"outv", "outa">>]
    ELSE [chains |-> <<ScaleAndPadFilter(0), ScaleAndPadFilter(1),
                       OutroConcat(<<"v0", "v1">>, FALSE)>>,
          maps |-> <<"outv">>]

\* the filter graph and the -map options addOutroVideo hands to the engine
OutroGraph(mainHasAudio, outroHasAudio) ==
    IF mainHasAudio /\ outroHasAudio
    THEN [chains |-> <<ScaleAndPadFilter(0), ScaleAndPadFilter(1),
                       OutroConcat(<<"v0", "0:a", "v1", "1:a">>, TRUE)>>,
          maps |-> <<"outv", "outa">>]
    ELSE IF mainHasAudio \/ outroHasAudio
    THEN IF mainHasAudio
         THEN [chains |-> <<ScaleAndPadFilter(0), ScaleAndPadFilter(1), Silent,
                            OutroConcat(<<"v0", "0:a", "v1", "silent">>, TRUE)>>,
               maps |-> <<"outv", "outa">>]
         ELSE [chains |-> <<ScaleAndPadFilter(0), ScaleAndPadFilter(1), Silent,
                            OutroConcat(<<"v0", "silent", "v1", "1:a">>, TRUE)>>,
               maps |-> <<"outv", "outa">>]
    ELSE [chains |-> <<ScaleAndPadFilter(0), ScaleAndPadFilter(1),
                       OutroConcat(<<"v0", "v1">>, FALSE)>>,
          maps |-> <<"outv">>]

NoGraph == [chains |-> <<>>, maps |-> <<>>]

\* what hasAudioStream can resolve to for the clips of one stitchVideos call
\* and for the two inputs of one addOutroVideo call
Probes ==
    [audioChecks : UNION {[1..n -> BOOLEAN] : n \in 0..MaxClips},
     mainHasAudio : BOOLEAN, outroHasAudio : BOOLEAN]

NoProbe == [audioChecks |-> <<>>, mainHasAudio |-> FALSE, outroHasAudio |-> FALSE]

NoGraphs == [stitch |-> NoGraph, outro |-> NoGraph]

----------------------------------------------------------------------------
(* The state machine *)

NoDownload == [jobId |-> "", status |-> 0]

EmptyFiles == [p \in {} |-> ""]

Init ==
    /\ files \in {EmptyFiles, WriteFile(EmptyFiles, OUTRO_VIDEO_PATH, "outro")}
    /\ dirs = {TEMP_DIR, OUTPUT_DIR}
    /\ pc = [j \in JobIds |-> "idle"]
    /\ body = [j \in JobIds |-> [videos |-> [kind |-> "undefined", items |-> <<>>],
                                 mv_audio |-> ""]]
    /\ videos = [j \in JobIds |-> <<>>]
    /\ idx = [j \in JobIds |-> 0]
    /\ videoPaths = [j \in JobIds |-> <<>>]
    /\ thrown = [j \in JobIds |-> NoError]
    /\ resp = [j \in JobIds |-> NoResponse]
    /\ log = [j \in JobIds |-> <<>>]
    /\ dl = NoDownload
    /\ probed = NoProbe
    /\ built = NoGraphs

\* The handler calls `stage` and is suspended on it.
Enter(j, stage, scene) ==
    /\ pc' = [pc EXCEPT ![j] = stage]
    /\ log' = [log EXCEPT ![j] = Append(@, [stage |-> stage, scene |-> scene])]

\* The awaited call rejected: control enters the catch block (lines 357-364).
Catch(j, error) ==
    /\ pc' = [pc EXCEPT ![j] = "done"]
    /\ thrown' = [thrown EXCEPT ![j] = error]
    /\ resp' = [resp EXCEPT ![j] = CatchResponse(j, error)]
    /\ UNCHANGED log

\* The awaited call never settles.
Hang(j) ==
    /\ pc' = [pc EXCEPT ![j] = "hung"]
    /\ UNCHANGED <<log, thrown, resp>>

\* POST /process-videos arrives: lines 257-272, up to `await fs.access`.
Submit(j, b) ==
    /\ pc[j] = "idle"
    /\ body' = [body EXCEPT ![j] = b]
    /\ videos' = [videos EXCEPT ![j] = b.videos.items]
    /\ IF InvalidInput(b)
       THEN /\ pc' = [pc EXCEPT ![j] = "done"]
            /\ resp' = [resp EXCEPT ![j] = InvalidInputResponse]
            /\ UNCHANGED log
       ELSE /\ Enter(j, "access", "")
            /\ UNCHANGED resp
    /\ UNCHANGED <<files, dirs, idx, videoPaths, thrown, dl, probed, built>>

\* The outro check dropped: the handler goes on to create the workspace.
CheckOutroSkipped(j) ==
    /\ pc[j] = "access"
    /\ Enter(j, "mkdir", "")
    /\ UNCHANGED <<files, dirs, body, videos, idx, videoPaths, thrown, resp, dl, probed, built>>

\* fs.access(OUTRO_VIDEO_PATH) settles: lines 271-286.
CheckOutro(j) ==
    /\ pc[j] = "access"
    /\ IF OUTRO_VIDEO_PATH \in DOMAIN files
       THEN /\ Enter(j, "mkdir", "")
            /\ UNCHANGED resp
       ELSE /\ pc' = [pc EXCEPT ![j] = "done"]
            /\ resp' = [resp EXCEPT ![j] = OutroMissingResponse]
            /\ UNCHANGED log
    /\ UNCHANGED <<files, dirs, body, videos, idx, videoPaths, thrown, dl, probed, built>>

\* fs.mkdir(jobDir) settles: lines 285-293.
Mkdir(j) ==
    /\ pc[j] = "mkdir"
    /\ \/ /\ dirs' = dirs \cup {JobDir(j)}
          /\ Enter(j, "audio_download", "")
          /\ UNCHANGED <<thrown, resp>>
       \/ /\ Catch(j, StageError("mkdir"))
          /\ UNCHANGED dirs
    /\ UNCHANGED <<files, body, videos, idx, videoPaths, dl, probed, built>>

\* downloadFile(mv_audio, audioPath) settles: lines 293-294.
DownloadAudio(j) ==
    /\ pc[j] = "audio_download"
    /\ \E outcome \in DownloadOutcomes(body[j].mv_audio) :
          CASE outcome = "ok" ->
                 /\ files' = WriteFile(files, AudioPath(j), body[j].mv_audio)
                 /\ Enter(j, "trim_audio", "")
                 /\ UNCHANGED <<thrown, resp>>
            [] outcome = "error" ->
                 /\ Catch(j, StageError("audio_download"))
                 /\ UNCHANGED files
            [] OTHER ->
                 /\ Hang(j)
                 /\ UNCHANGED files
    /\ UNCHANGED <<dirs, body, videos, idx, videoPaths, dl, probed, built>>

\* The loop left at once: stitchVideos called without downloading the clips.
EnterLoopSkipsDownloads(j, sortedVideos, i) == Enter(j, "stitch", "")

\* The download loop reached index i (1-based): call downloadFile for
\* sortedVideos[i], or leave the loop and call stitchVideos (lines 310-321).
EnterLoop(j, sortedVideos, i) ==
    IF i <= Len(sortedVideos)
    THEN Enter(j, "video_download", sortedVideos[i].scene_number)
    ELSE Enter(j, "stitch", "")

\* trimAudio settles; then the sort and the loop head: lines 294-313.
TrimAudio(j) ==
    /\ pc[j] = "trim_audio"
    /\ \/ /\ files' = WriteFile(files, TrimmedAudioPath(j),
                                "trim(" \o files[AudioPath(j)] \o ")")
          /\ videos' = [videos EXCEPT ![j] = SortVideos(@)]
          /\ videoPaths' = [videoPaths EXCEPT ![j] = <<>>]
          /\ idx' = [idx EXCEPT ![j] = 1]
          /\ EnterLoop(j, videos'[j], 1)
          /\ UNCHANGED <<thrown, resp>>
       \/ /\ Catch(j, StageError("trim_audio"))
          /\ UNCHANGED <<files, videos, videoPaths, idx>>
    /\ UNCHANGED <<dirs, body, dl, probed, built>>

\* downloadFile(video.final_video_url, videoPath) settles: lines 311-316.
DownloadVideo(j) ==
    /\ pc[j] = "video_download"
    /\ LET video == videos[j][idx[j]]
           videoPath == VideoPath(j, video)
       IN  \E outcome \in DownloadOutcomes(video.final_video_url) :
             CASE outcome = "ok" ->
                    /\ files' = WriteFile(files, videoPath, video.final_video_url)
                    /\ videoPaths' = [videoPaths EXCEPT ![j] = Append(@, videoPath)]
                    /\ idx' = [idx EXCEPT ![j] = @ + 1]
                    /\ EnterLoop(j, videos[j], idx[j] + 1)
                    /\ UNCHANGED <<thrown, resp>>
               [] outcome = "error" ->
                    /\ Catch(j, StageError("video_download"))
                    /\ UNCHANGED <<files, videoPaths, idx>>
               [] OTHER ->
                    /\ Hang(j)
                    /\ UNCHANGED <<files, videoPaths, idx>>
    /\ UNCHANGED <<dirs, body, videos, dl, probed, built>>

\* stitchVideos settles: lines 321-326.  The engine cannot concatenate zero
\* inputs, so an empty videoPaths always rejects.
Stitch(j) ==
    /\ pc[j] = "stitch"
    /\ \/ /\ videoPaths[j] # <<>>
          /\ files' = WriteFile(files, StitchedVideoPath(j),
                                JoinContents(files, videoPaths[j]))
          /\ Enter(j, "add_audio", "")
          /\ UNCHANGED <<thrown, resp>>
       \/ /\ Catch(j, StageError("stitch"))
          /\ UNCHANGED files
    /\ UNCHANGED <<dirs, body, videos, idx, videoPaths, dl, probed, built>>

\* addAudioToVideo settles: lines 326-331.
AddAudio(j) ==
    /\ pc[j] = "add_audio"
    /\ \/ /\ files' = WriteFile(files, VideoWithAudioPath(j),
                                files[StitchedVideoPath(j)] \o "&"
                                    \o files[TrimmedAudioPath(j)])
          /\ Enter(j, "add_outro", "")
          /\ UNCHANGED <<thrown, resp>>
       \/ /\ Catch(j, StageError("add_audio"))
          /\ UNCHANGED files
    /\ UNCHANGED <<dirs, body, videos, idx, videoPaths, dl, probed, built>>

\* addOutroVideo settles: lines 330-334.
AddOutro(j) ==
    /\ pc[j] = "add_outro"
    /\ \/ /\ files' = WriteFile(files, FinalVideoPath(j),
                                files[VideoWithAudioPath(j)] \o "+"
                                    \o files[OUTRO_VIDEO_PATH])
          /\ Enter(j, "probe", "")
          /\ UNCHANGED <<thrown, resp>>
       \/ /\ Catch(j, StageError("add_outro"))
          /\ UNCHANGED files
    /\ UNCHANGED <<dirs, body, videos, idx, videoPaths, dl, probed, built>>

\* getVideoDuration(finalVideoPath) settles: lines 334-335.
Probe(j) ==
    /\ pc[j] = "probe"
    /\ \/ /\ Enter(j, "stat", "")
          /\ UNCHANGED <<thrown, resp>>
       \/ Catch(j, StageError("probe"))
    /\ UNCHANGED <<files, dirs, body, videos, idx, videoPaths, dl, probed, built>>

\* fs.stat(finalVideoPath) settles: lines 335-338.
Stat(j) ==
    /\ pc[j] = "stat"
    /\ \/ /\ Enter(j, "cleanup", "")
          /\ UNCHANGED <<thrown, resp>>
       \/ Catch(j, StageError("stat"))
    /\ UNCHANGED <<files, dirs, body, videos, idx, videoPaths, dl, probed, built>>

\* fs.rm(jobDir, { recursive: true, force: true }) settles; on success the
\* success response is sent: lines 338-355.
Cleanup(j) ==
    /\ pc[j] = "cleanup"
    /\ \/ /\ files' = RmRecursive(files, JobDir(j))
          /\ dirs' = dirs \ {JobDir(j)}
          /\ pc' = [pc EXCEPT ![j] = "done"]
          /\ resp' = [resp EXCEPT ![j] = SuccessResponse(j, videos[j])]
          /\ UNCHANGED <<thrown, log>>
       \/ /\ Catch(j, StageError("cleanup"))
          /\ UNCHANGED <<files, dirs>>
    /\ UNCHANGED <<body, videos, idx, videoPaths, dl, probed, built>>

\* GET /download/:jobId, for any identifier a client sends: lines 368-392.
Download(j) ==
    /\ dl' = [jobId |-> j,
              status |-> IF FinalVideoPath(j) \in DOMAIN files THEN 200 ELSE 404]
    /\ UNCHANGED <<files, dirs, pc, body, videos, idx, videoPaths, thrown, resp, log,
                   probed, built>>

Next ==
    \/ \E j \in SoloJobs, b \in Bodies : Submit(j, b)
    \/ \E j \in SoloJobs : CheckOutro(j)
    \/ \E j \in SoloJobs : Mkdir(j)
    \/ \E j \in SoloJobs : DownloadAudio(j)
    \/ \E j \in SoloJobs : TrimAudio(j)
    \/ \E j \in SoloJobs : DownloadVideo(j)
    \/ \E j \in SoloJobs : Stitch(j)
    \/ \E j \in SoloJobs : AddAudio(j)
    \/ \E j \in SoloJobs : AddOutro(j)
    \/ \E j \in SoloJobs : Probe(j)
    \/ \E j \in SoloJobs : Stat(j)
    \/ \E j \in SoloJobs : Cleanup(j)
    \/ \E j \in JobIds : Download(j)

Spec == Init /\ [][Next]_vars

----------------------------------------------------------------------------
(* Concurrent requests: every await yields to the event loop, so the       *)
(* handler runs of different requests interleave at their awaits.  The     *)
(* requests are drawn from a small set of well-formed bodies.              *)

ConcBodies ==
    LET first == [scene_number |-> "1", final_video_url |-> "http://a"]
        second == [scene_number |-> "2", final_video_url |-> "http://b"]
    IN  {[videos |-> [kind |-> "array", items |-> a], mv_audio |-> "http://audio"] :
            a \in {<<first>>, <<second, first>>}}

ConcNext ==
    \/ \E j \in JobIds, b \in ConcBodies : Submit(j, b)
    \/ \E j \in JobIds : CheckOutro(j)
    \/ \E j \in JobIds : Mkdir(j)
    \/ \E j \in JobIds : DownloadAudio(j)
    \/ \E j \in JobIds : TrimAudio(j)
    \/ \E j \in JobIds : DownloadVideo(j)
    \/ \E j \in JobIds : Stitch(j)
    \/ \E j \in JobIds : AddAudio(j)
    \/ \E j \in JobIds : AddOutro(j)
    \/ \E j \in JobIds : Probe(j)
    \/ \E j \in JobIds : Stat(j)
    \/ \E j \in JobIds : Cleanup(j)
    \/ \E j \in JobIds : Download(j)

ConcSpec == Init /\ [][ConcNext]_vars

\* the paths the call a handler is suspended on reads
StageReads(j) ==
    CASE pc[j] = "access" -> {OUTRO_VIDEO_PATH}
      [] pc[j] = "trim_audio" -> {AudioPath(j)}
      [] pc[j] = "stitch" -> {videoPaths[j][i] : i \in 1..Len(videoPaths[j])}
      [] pc[j] = "add_audio" -> {StitchedVideoPath(j), TrimmedAudioPath(j)}
      [] pc[j] = "add_outro" -> {VideoWithAudioPath(j), OUTRO_VIDEO_PATH}
      [] pc[j] \in {"probe", "stat"} -> {FinalVideoPath(j)}
      [] OTHER -> {}

----------------------------------------------------------------------------
(* The graph builders on their own: the probe results are drawn from       *)
(* Probes and each builder is applied to them.                             *)

GraphInit ==
    /\ files = WriteFile(EmptyFiles, OUTRO_VIDEO_PATH, "outro")
    /\ dirs = {TEMP_DIR, OUTPUT_DIR}
    /\ pc = [j \in JobIds |-> "idle"]
    /\ body = [j \in JobIds |-> [videos |-> [kind |-> "undefined", items |-> <<>>],
                                 mv_audio |-> ""]]
    /\ videos = [j \in JobIds |-> <<>>]
    /\ idx = [j \in JobIds |-> 0]
    /\ videoPaths = [j \in JobIds |-> <<>>]
    /\ thrown = [j \in JobIds |-> NoError]
    /\ resp = [j \in JobIds |-> NoResponse]
    /\ log = [j \in JobIds |-> <<>>]
    /\ dl = NoDownload
    /\ probed \in Probes
    /\ built = NoGraphs

\* stitchVideos builds its graph from the probe results: lines 96-136.
BuildStitchGraph ==
    /\ built.stitch = NoGraph
    /\ built' = [built EXCEPT !.stitch = StitchGraph(probed.audioChecks)]
    /\ UNCHANGED <<files, dirs, pc, body, videos, idx, videoPaths, thrown, resp, log,
                   dl, probed>>

\* addOutroVideo builds its graph from the probe results: lines 185-237.
BuildOutroGraph ==
    /\ built.outro = NoGraph
    /\ built' = [built EXCEPT
                    !.outro = OutroGraph(probed.mainHasAudio, probed.outroHasAudio)]
    /\ UNCHANGED <<files, dirs, pc, body, videos, idx, videoPaths, thrown, resp, log,
                   dl, probed>>

GraphNext == BuildStitchGraph \/ BuildOutroGraph

GraphSpec == GraphInit /\ [][GraphNext]_vars

----------------------------------------------------------------------------
(* Vocabulary of the properties *)

Range(s) == {s[i] : i \in 1..Len(s)}

Started(j, stage) == \E i \in 1..Len(log[j]) : log[j][i].stage = stage

\* the stages started after the workspace check, in the order of the pipeline
PipelineStages ==
    {"mkdir", "audio_download", "trim_audio", "video_download", "stitch",
     "add_audio", "add_outro", "probe", "stat", "cleanup"}

NoStageStarted(j) == \A st \in PipelineStages : ~Started(j, st)

\* fs.mkdir(jobDir) resolved: the handler went on to the audio download
WorkspaceCreated(j) == Started(j, "audio_download")

Submitted(j) == pc[j] # "idle"

Finished(j) == pc[j] = "done"

Completed(j) == Finished(j) /\ resp[j].status = 200

Failed(j) == Finished(j) /\ resp[j].status \in {400, 500}

OutroPresent == OUTRO_VIDEO_PATH \in DOMAIN files

Items(j) == body[j].videos.items

Scene(v) == ParseInt(v.scene_number)

\* every scene number is an integer and no two are equal
DistinctIntegerScenes(b) ==
    /\ b.videos.kind = "array"
    /\ \A i \in 1..Len(b.videos.items) : ~Scene(b.videos.items[i]).nan
    /\ \A i, k \in 1..Len(b.videos.items) :
          i # k => Scene(b.videos.items[i]).val # Scene(b.videos.items[k]).val

DuplicateScenes(b) ==
    /\ b.videos.kind = "array"
    /\ \E i, k \in 1..Len(b.videos.items) :
          /\ i # k
          /\ ~Scene(b.videos.items[i]).nan
          /\ Scene(b.videos.items[i]) = Scene(b.videos.items[k])

\* the descriptors in ascending order of scene number, stated without the sort
Ascending(items) ==
    CHOOSE s \in [1..Len(items) -> Range(items)] :
        \A i, k \in 1..Len(items) : i < k => Scene(s[i]).val < Scene(s[k]).val

\* the scene numbers of the clip downloads started so far, in order
DownloadLog(j) ==
    LET IsVideoDownload(e) == e.stage = "video_download"
        entries == SelectSeq(log[j], IsVideoDownload)
    IN  [i \in 1..Len(entries) |-> entries[i].scene]

\* what the scene sequencer of the specification rejects
InvalidDescriptors(b) ==
    \/ b.videos.kind # "array"
    \/ b.videos.items = <<>>
    \/ \E i \in 1..Len(b.videos.items) :
          \/ Scene(b.videos.items[i]).nan
          \/ b.videos.items[i].final_video_url = ""

----------------------------------------------------------------------------
(* Properties *)

\* C1: for a request whose scene numbers are distinct integers, in whatever
\* order the array lists them, the clip downloads are started in ascending
\* order of scene number, the paths handed to the stitch stage are the paths
\* of the clips in that order, the array stays in that order from the sort
\* on, and the sceneOrder of the success response is that order.
C1_SceneOrderIsAscendingSort ==
    \A j \in JobIds :
        (Submitted(j) /\ DistinctIntegerScenes(body[j])) =>
            LET expected == Ascending(Items(j))
                n == Len(expected)
            IN  /\ \A i \in 1..Len(DownloadLog(j)) :
                      /\ i <= n
                      /\ DownloadLog(j)[i] = expected[i].scene_number
                /\ Started(j, "video_download") \/ Started(j, "stitch")
                      => videos[j] = expected
                /\ Started(j, "stitch") =>
                      /\ Len(DownloadLog(j)) = n
                      /\ videoPaths[j] = [i \in 1..n |-> VideoPath(j, expected[i])]
                /\ Completed(j) =>
                      resp[j].sceneOrder = [i \in 1..n |-> Scene(expected[i])]

\* C1 witness: a job completed whose request listed two or more clips in an
\* order that is not ascending.
C1_Witness ==
    \E j \in JobIds :
        /\ Completed(j)
        /\ DistinctIntegerScenes(body[j])
        /\ Len(Items(j)) >= 2
        /\ Items(j) # Ascending(Items(j))
        /\ Len(resp[j].sceneOrder) = Len(Items(j))

\* C2 as stated: with the outro asset absent, a finished job was answered
\* with the missing-asset message, and no workspace was created and no
\* pipeline stage was started.
C2_Original_OutroMissingMessage ==
    \A j \in JobIds :
        (Submitted(j) /\ ~OutroPresent) =>
            /\ pc[j] \in {"access", "done"}
            /\ Finished(j) => resp[j] = OutroMissingResponse
            /\ JobDir(j) \notin dirs
            /\ NoStageStarted(j)

\* C2 amended: with the outro asset absent, no workspace is created and no
\* pipeline stage is started, and a finished job whose request passed the
\* input check was answered with the missing-asset message (a request that
\* fails the input check is answered with the invalid-input message).
C2_OutroMissingFailsFast ==
    \A j \in JobIds :
        (Submitted(j) /\ ~OutroPresent) =>
            /\ pc[j] \in {"access", "done"}
            /\ Finished(j) =>
                  resp[j] = IF InvalidInput(body[j]) THEN InvalidInputResponse
                            ELSE OutroMissingResponse
            /\ JobDir(j) \notin dirs
            /\ NoStageStarted(j)

\* C2 witness: a well-formed request was answered with the missing-asset
\* message.
C2_Witness ==
    \E j \in JobIds :
        /\ ~OutroPresent
        /\ Finished(j)
        /\ ~InvalidInput(body[j])
        /\ Items(j) # <<>>
        /\ resp[j] = OutroMissingResponse

\* C3 as stated: a request with an empty videos collection, or with a
\* descriptor whose scene number is not an integer or whose URL is empty, is
\* answered with a validation error (400) and never gets a workspace or a
\* download.
C3_Original_InvalidDescriptorsFailBeforeIO ==
    \A j \in JobIds :
        (Submitted(j) /\ InvalidDescriptors(body[j])) =>
            /\ ~WorkspaceCreated(j)
            /\ NoStageStarted(j)
            /\ Finished(j) => resp[j].status = 400

\* C4 as stated: a request in which two descriptors carry the same scene
\* number never ends as a completed job.
C4_Original_DuplicateScenesRejected ==
    \A j \in JobIds : DuplicateScenes(body[j]) => ~Completed(j)

\* C5 as stated: a job never fails because of the audio download or the
\* audio trim; a failure of either is absorbed.
C5_Original_AudioNeverFailsJob ==
    \A j \in JobIds :
        Failed(j) => thrown[j].stage \notin {"audio_download", "trim_audio"}

\* C6: once a stage of the pipeline (video download, stitch, mux, outro
\* append, probe or stat of the final file) has rejected, the job is
\* finished and failed, the response carries the rejecting stage's message
\* unchanged together with the job identifier, and the rejecting stage is
\* the last stage that was ever started.
C6_StageErrorAbortsWithMessage ==
    \A j \in JobIds :
        thrown[j].stage \in
            {"video_download", "stitch", "add_audio", "add_outro", "probe", "stat"}
        =>  /\ Failed(j)
            /\ resp[j].status = 500
            /\ resp[j].error = thrown[j].message
            /\ resp[j].jobId = j
            /\ log[j] # <<>>
            /\ log[j][Len(log[j])].stage = thrown[j].stage

\* C6 witness: the stitch stage rejected after two clips were downloaded.
C6_Witness ==
    \E j \in JobIds :
        /\ thrown[j].stage = "stitch"
        /\ Len(videoPaths[j]) >= 2
        /\ resp[j].error = "stitch failed"
        /\ ~Started(j, "add_audio")

\* C7 as stated: every finished job that created its workspace has had the
\* removal of the workspace attempted.
C7_Original_CleanupOnEveryOutcome ==
    \A j \in JobIds :
        (Finished(j) /\ WorkspaceCreated(j)) => Started(j, "cleanup")

\* C8 as stated: a job whose stages all succeeded and whose final file was
\* written, so that only the removal of the workspace is left, ends
\* completed whether or not the removal raises an error.
C8_Original_CleanupFailureIgnored ==
    \A j \in JobIds :
        (Finished(j) /\ Started(j, "cleanup")) => Completed(j)

\* C9: the final file lies outside the job's workspace; once a job has
\* completed (its workspace removed) the final file exists, and every
\* GET /download/:jobId answered from then on is answered 200.
C9_FinalOutputSurvivesCleanup ==
    /\ [](\A j \in JobIds :
            /\ ~IsUnder(FinalVideoPath(j), JobDir(j))
            /\ Completed(j) =>
                  /\ FinalVideoPath(j) \in DOMAIN files
                  /\ \A p \in DOMAIN files : ~IsUnder(p, JobDir(j)))
    /\ [][\A j \in JobIds :
            (Completed(j) /\ Download(j)) => dl'.status = 200]_vars

\* C9 witness: a completed job with no file left in its workspace whose
\* final file was served.
C9_Witness ==
    \E j \in JobIds :
        /\ Completed(j)
        /\ Started(j, "cleanup")
        /\ JobDir(j) \notin dirs
        /\ \A p \in DOMAIN files : ~IsUnder(p, JobDir(j))
        /\ dl = [jobId |-> j, status |-> 200]

----------------------------------------------------------------------------
(* Properties, continued *)

\* the handler of job j resumes: one of its awaited calls settles
HandlerStep(j) ==
    \/ CheckOutro(j) \/ Mkdir(j) \/ DownloadAudio(j) \/ TrimAudio(j)
    \/ DownloadVideo(j) \/ Stitch(j) \/ AddAudio(j) \/ AddOutro(j)
    \/ Probe(j) \/ Stat(j) \/ Cleanup(j)

Processing(j) == Submitted(j) /\ ~Finished(j)

\* C11 as stated: a download always ends, so a job that is still being
\* processed is never left waiting on a call that will not settle: its
\* handler can always resume and go on to an end.
C11_Original_DownloadsBounded ==
    \A j \in JobIds : Processing(j) => ENABLED HandlerStep(j)

\* C12 as stated: every failed request was answered with an error response
\* that carries the job identifier: 400 with error and jobId for the
\* validation failures, 500 with success=false, error and jobId otherwise.
C12_Original_ErrorResponseCarriesJobId ==
    \A j \in JobIds :
        Failed(j) =>
            /\ resp[j].error # ""
            /\ resp[j].jobId = j
            /\ thrown[j] = NoError => resp[j].status = 400
            /\ thrown[j] # NoError =>
                  resp[j].status = 500 /\ resp[j].success = "false"

----------------------------------------------------------------------------
(* Properties of the filter graphs *)

Suffix(s, k) == SubSeq(s, Len(s) - k + 1, Len(s))

\* the concat node: the last chain of a graph
ConcatOf(g) == g.chains[Len(g.chains)]

Chains(g) == Range(g.chains)

\* the graph produces an audio output and maps it
HasAudioOutput(g) ==
    /\ Suffix(ConcatOf(g).filter, 3) = "a=1"
    /\ ConcatOf(g).outs = <<"outv", "outa">>
    /\ g.maps = <<"outv", "outa">>

\* the graph is a video-only concatenation with no audio output mapped
VideoOnly(g) ==
    /\ Suffix(ConcatOf(g).filter, 3) = "a=0"
    /\ ConcatOf(g).outs = <<"outv">>
    /\ g.maps = <<"outv">>

\* label is the output pad of a silent source of the graph
IsSilentSource(g, label) ==
    \E c \in Chains(g) : c.filter = Anullsrc /\ c.ins = <<>> /\ label \in Range(c.outs)

\* label carries the audio stream of input `index`: the stream itself or the
\* output of a filter fed by it
IsAudioOfInput(g, label, index) ==
    \/ label = InA(index)
    \/ \E c \in Chains(g) :
          c.filter # "" /\ InA(index) \in Range(c.ins) /\ label \in Range(c.outs)

\* C13: the graph stitchVideos builds has an audio output (concat a=1 and a
\* mapped [outa]) exactly when at least one clip was probed as having an
\* audio stream; with no such clip it is a video-only concatenation of the
\* n normalized video branches, with no audio pad and no audio output.
C13_StitchAudioOutputIffAnyAudio ==
    built.stitch # NoGraph =>
        LET g == built.stitch
            n == Len(probed.audioChecks)
            any == \E i \in 1..n : probed.audioChecks[i]
        IN  /\ HasAudioOutput(g) <=> any
            /\ ~any =>
                  /\ VideoOnly(g)
                  /\ ConcatOf(g).ins = [i \in 1..n |-> VLabel(i - 1)]
                  /\ \A c \in Chains(g) : c.filter # Anullsrc

\* C13 witness: a graph with an audio output, built for clips of which one
\* has audio and one has none.
C13_Witness ==
    /\ built.stitch # NoGraph
    /\ \E i, k \in 1..Len(probed.audioChecks) :
          probed.audioChecks[i] /\ ~probed.audioChecks[k]
    /\ HasAudioOutput(built.stitch)

\* C14 as stated: when some clip has audio, the concat node consumes one
\* audio pad per input, after that input's video pad, and the pad of input
\* i is a stream the graph defines: input i's audio stream when it has
\* one, a silent source otherwise.
C14_Original_AudioPadsDefined ==
    (built.stitch # NoGraph /\ \E i \in 1..Len(probed.audioChecks) : probed.audioChecks[i])
    =>  LET g == built.stitch
            n == Len(probed.audioChecks)
            ins == ConcatOf(g).ins
        IN  /\ Len(ins) = 2 * n
            /\ \A i \in 1..n :
                  /\ ins[2 * i - 1] = VLabel(i - 1)
                  /\ IF probed.audioChecks[i]
                     THEN IsAudioOfInput(g, ins[2 * i], i - 1)
                     ELSE IsSilentSource(g, ins[2 * i])

\* C15: for each combination of (main has audio, outro has audio) the graph
\* addOutroVideo builds normalizes input 0 and input 1 with the same filter
\* and concatenates two segments, main first and outro second; it has an
\* audio output exactly when one of the two has audio, and then the audio pad
\* of a clip that has audio is that clip's own stream and the audio pad of a
\* clip that has none is a silent source, with no silent source otherwise.
C15_OutroGraphFourCases ==
    built.outro # NoGraph =>
        LET g == built.outro
            ins == ConcatOf(g).ins
            has == <<probed.mainHasAudio, probed.outroHasAudio>>
            any == has[1] \/ has[2]
            silent == {i \in 1..Len(g.chains) : g.chains[i].filter = Anullsrc}
        IN  /\ g.chains[1] = [ins |-> <<"0:v">>, filter |-> Normalize, outs |-> <<"v0">>]
            /\ g.chains[2] = [ins |-> <<"1:v">>, filter |-> Normalize, outs |-> <<"v1">>]
            /\ SubSeq(ConcatOf(g).filter, 1, 10) = "concat=n=2"
            /\ HasAudioOutput(g) <=> any
            /\ ~any => VideoOnly(g) /\ ins = <<"v0", "v1">> /\ silent = {}
            /\ any =>
                  /\ Len(ins) = 4
                  /\ ins[1] = "v0" /\ ins[3] = "v1"
                  /\ \A k \in 1..2 :
                        IF has[k] THEN ins[2 * k] = InA(k - 1)
                        ELSE IsSilentSource(g, ins[2 * k])
                  /\ Cardinality(silent) = Cardinality({k \in 1..2 : ~has[k]})

\* C15 witness: the graph built when only the outro has audio.
C15_Witness ==
    /\ built.outro # NoGraph
    /\ ~probed.mainHasAudio /\ probed.outroHasAudio
    /\ ConcatOf(built.outro).ins = <<"v0", "silent", "v1", "1:a">>

----------------------------------------------------------------------------
(* Properties of the stage order *)

\* the stages of one job in the order the handler calls them, for n clips
StageOrder(n) ==
    <<"access", "mkdir", "audio_download", "trim_audio">>
        \o [i \in 1..n |-> "video_download"]
        \o <<"stitch", "add_audio", "add_outro", "probe", "stat", "cleanup">>

StagesStarted(j) == [i \in 1..Len(log[j]) |-> log[j][i].stage]

Exists(p) == p \in DOMAIN files

\* C16: the stages of a job are started in the order outro check, workspace,
\* audio download, audio trim, one download per clip, stitch, audio mux,
\* outro append, probe, stat, cleanup; a stage is started only when the
\* stage before it has left its result (the workspace, the audio file, the
\* trimmed audio, every clip so far, the stitched, muxed and final files);
\* at most one clip download is unfinished at any time; nothing is started
\* after a stage failed; and the success response is sent only after all
\* stages were started and the final file was written.
C16_StagesInOrder ==
    \A j \in JobIds :
        LET n == Len(videos[j])
            started == StagesStarted(j)
        IN  /\ Len(started) <= Len(StageOrder(n))
            /\ started = SubSeq(StageOrder(n), 1, Len(started))
            /\ Len(DownloadLog(j)) - Len(videoPaths[j]) \in {0, 1}
            /\ thrown[j] # NoError => started[Len(started)] = thrown[j].stage
            /\ Completed(j) =>
                  /\ started = StageOrder(n)
                  /\ Exists(FinalVideoPath(j))
            /\ (Submitted(j) /\ ~Completed(j)) =>
                  /\ Started(j, "audio_download") => JobDir(j) \in dirs
                  /\ Started(j, "trim_audio") => Exists(AudioPath(j))
                  /\ Started(j, "video_download") \/ Started(j, "stitch")
                        => Exists(TrimmedAudioPath(j))
                  /\ \A i \in 1..Len(videoPaths[j]) : Exists(videoPaths[j][i])
                  /\ Started(j, "stitch") => Len(videoPaths[j]) = n
                  /\ Started(j, "add_audio") => Exists(StitchedVideoPath(j))
                  /\ Started(j, "add_outro") => Exists(VideoWithAudioPath(j))
                  /\ Started(j, "probe") => Exists(FinalVideoPath(j))

\* C16 witness: a job with two clips that went through every stage and was
\* answered with the success response.
C16_Witness ==
    \E j \in JobIds :
        /\ Completed(j)
        /\ Len(videos[j]) = 2
        /\ StagesStarted(j) = StageOrder(2)

\* C17 as stated: the final file of a job that ended failed does not exist,
\* so GET /download/:jobId for it is answered 404.
C17_Original_NoOutputForFailedJob ==
    \A j \in JobIds : Failed(j) => ~Exists(FinalVideoPath(j))

----------------------------------------------------------------------------
(* Properties of concurrent jobs *)

\* p lies in the workspace directory of job j
InWorkspace(j, p) == IsUnder(p, "/tmp/" \o j)

\* p is the final output file of job j
IsFinalOutput(j, p) == p = "/tmp/output/final_video_" \o j \o ".mp4"

Own(j, p) == InWorkspace(j, p) \/ IsFinalOutput(j, p)

\* the handler of job j takes the step
Acts(j) == pc'[j] # pc[j] \/ log'[j] # log[j]

Written(p) == p \in DOMAIN files' /\ (p \in DOMAIN files => files'[p] # files[p])

Removed(p) == p \in DOMAIN files /\ p \notin DOMAIN files'

----------------------------------------------------------------------------
(* Properties of the downloaded clips *)

\* C19 as stated: when the stitch stage starts, the local paths of the
\* segments are pairwise distinct and the i-th path holds what was
\* downloaded for the i-th segment of the sorted order.
C19_Original_PathsHoldOwnSegments ==
    \A j \in JobIds :
        pc[j] = "stitch" =>
            /\ Len(videoPaths[j]) = Len(videos[j])
            /\ \A i \in 1..Len(videoPaths[j]) :
                  /\ Exists(videoPaths[j][i])
                  /\ files[videoPaths[j][i]] = videos[j][i].final_video_url
            /\ \A i, k \in 1..Len(videoPaths[j]) :
                  i # k => videoPaths[j][i] # videoPaths[j][k]

====
